---- MODULE Spec2Model ----
(***************************************************************************)
(* A model of the "What's On?" watchlist: the show store of database.py    *)
(* (shows, watch_history, dismissed_recommendations) and the request        *)
(* handlers of main.py that read and write it.                              *)
(*                                                                          *)
(* Strings that the code compares or lowercases (titles) are sequences of   *)
(* code points; the other strings are opaque.  SQL NULL and Python None     *)
(* are the value NULL.  An optional integer column is <<>> (NULL) or <<n>>. *)
(***************************************************************************)
EXTENDS Integers, Sequences, FiniteSets, TLC

VARIABLES
    backend,          \* "sqlite" or "postgres": whether DATABASE_URL is set
    shows,            \* table shows: id -> row
    nextId,           \* the next id AUTOINCREMENT / SERIAL hands out
    history,          \* table watch_history, in insertion order
    dismissed,        \* table dismissed_recommendations: the slugs
    now,              \* the clock datetime.now() reads
    resp,             \* the last request handled and its HTTP answer
    listed,           \* home / api_shows: the list get_all_shows returned
    priority_shows,   \* home: the four rows of the page
    backup_shows,
    catching_up,
    between_seasons,
    popular,          \* get_recommendations: the provider's answer
    recommendations,  \* get_recommendations: the list returned
    trakt_job,        \* fetch_all_trakt: the request in flight, if any
    poster_job        \* fetch_all_posters: the request in flight, if any

vars == <<backend, shows, nextId, history, dismissed, now, resp, listed,
          priority_shows, backup_shows, catching_up, between_seasons,
          popular, recommendations, trakt_job, poster_job>>

storeVars == <<backend, shows, nextId, history, dismissed>>
homeVars == <<listed, priority_shows, backup_shows, catching_up, between_seasons>>
recVars == <<popular, recommendations>>
jobVars == <<trakt_job, poster_job>>

-----------------------------------------------------------------------------
(* Values *)

NULL == "NULL"

Backends == {"sqlite", "postgres"}

\* Titles as code points: "A", "Z", "a", "z".
TitleA == <<65>>
TitleZ == <<90>>
Titlea == <<97>>
Titlez == <<122>>

\* The sentinel "caught up" episode number.
CaughtUpEpisode == 99

\* Python: a < b on str (code point order, a proper prefix first).
RECURSIVE StrLT(_, _)
StrLT(a, b) ==
    IF b = <<>> THEN FALSE
    ELSE IF a = <<>> THEN TRUE
    ELSE IF Head(a) # Head(b) THEN Head(a) < Head(b)
    ELSE StrLT(Tail(a), Tail(b))

\* Python: str.lower() on ASCII letters.
Lower(t) == [i \in DOMAIN t |-> IF t[i] >= 65 /\ t[i] <= 90 THEN t[i] + 32 ELSE t[i]]

\* Python truthiness of an optional string.
Truthy(v) == v # NULL /\ v # ""

\* All orderings of a finite set, as sequences.
RECURSIVE SeqsOf(_)
SeqsOf(S) ==
    IF S = {} THEN {<<>>}
    ELSE UNION {{<<x>> \o t : t \in SeqsOf(S \ {x})} : x \in S}

SeqToSet(s) == {s[i] : i \in DOMAIN s}

-----------------------------------------------------------------------------
(* database.py: reads *)

\* Text order of the air_day values the model uses (SQL ORDER BY air_day).
DayAlpha(d) ==
    CASE d = "Friday" -> 1
      [] d = "Monday" -> 2
      [] d = "Saturday" -> 3
      [] d = "Sunday" -> 4
      [] d = "Thursday" -> 5
      [] d = "Tuesday" -> 6
      [] d = "Wednesday" -> 7
      [] OTHER -> 8

\* ORDER BY air_day ASC: SQLite sorts NULL first, PostgreSQL sorts it last.
SqlAirDayLT(be, a, b) ==
    IF a = NULL /\ b = NULL THEN FALSE
    ELSE IF a = NULL THEN be = "sqlite"
    ELSE IF b = NULL THEN be = "postgres"
    ELSE DayAlpha(a) < DayAlpha(b)

\* ORDER BY title ASC: SQLite compares bytes; under PostgreSQL the order is
\* the database's collation, which the code does not fix, so no order is
\* assumed there.
SqlTitleLT(be, a, b) == be = "sqlite" /\ StrLT(a, b)

\* ORDER BY priority ASC, air_day ASC, title ASC
SqlRowLT(be, r, s) ==
    \/ r.priority < s.priority
    \/ /\ r.priority = s.priority
       /\ \/ SqlAirDayLT(be, r.air_day, s.air_day)
          \/ /\ r.air_day = s.air_day
             /\ SqlTitleLT(be, r.title, s.title)

\* A bug: the SELECT has no WHERE status != 'dropped'.
GetAllShowsNoWhere(be, store) ==
    {[i \in DOMAIN o |-> store[o[i]]] : o \in
        {p \in SeqsOf(DOMAIN store) :
            \A i, j \in DOMAIN p :
                i < j => ~SqlRowLT(be, store[p[j]], store[p[i]])}}

\* get_all_shows: every list the SELECT may return (rows that compare equal
\* come in an order the database chooses).
GetAllShows(be, store) ==
    LET active == {id \in DOMAIN store : store[id].status # "dropped"}
    IN  {[i \in DOMAIN o |-> store[o[i]]] : o \in
            {p \in SeqsOf(active) :
                \A i, j \in DOMAIN p :
                    i < j => ~SqlRowLT(be, store[p[j]], store[p[i]])}}

\* get_show: <<row>>, or <<>> for None
GetShow(store, id) == IF id \in DOMAIN store THEN <<store[id]>> ELSE <<>>

-----------------------------------------------------------------------------
(* main.py: home *)

\* A bug: the priority test comes before the hiatus test.
BucketOfPriorityFirst(show) ==
    IF show.priority = 3 THEN "backup_shows"
    ELSE IF show.status = "hiatus" THEN "between_seasons"
    ELSE IF show.current_episode # 99 /\ show.status = "watching"
         THEN "catching_up"
    ELSE "priority_shows"

\* The if / elif chain of the loop: the row a show is appended to.
BucketOf(show) ==
    IF show.status = "hiatus" THEN "between_seasons"
    ELSE IF show.priority = 3 THEN "backup_shows"
    ELSE IF show.current_episode # CaughtUpEpisode /\ show.status = "watching"
         THEN "catching_up"
    ELSE "priority_shows"

EmptyRows ==
    [priority_shows |-> <<>>, backup_shows |-> <<>>,
     catching_up |-> <<>>, between_seasons |-> <<>>]

\* A bug: the second test written as `if`, so a hiatus show of priority 3
\* is appended twice.
RECURSIVE CategorizeIfForElif(_)
CategorizeIfForElif(list) ==
    IF list = <<>> THEN EmptyRows
    ELSE LET rest == CategorizeIfForElif(SubSeq(list, 1, Len(list) - 1))
             show == list[Len(list)]
             b == BucketOf(show)
             one == [rest EXCEPT ![b] = Append(@, show)]
         IN  IF show.status = "hiatus" /\ show.priority = 3
             THEN [one EXCEPT !["backup_shows"] = Append(@, show)]
             ELSE one

\* for show in shows: ... append(show)
RECURSIVE Categorize(_)
Categorize(list) ==
    IF list = <<>> THEN EmptyRows
    ELSE LET rest == Categorize(SubSeq(list, 1, Len(list) - 1))
             show == list[Len(list)]
         IN  [rest EXCEPT ![BucketOf(show)] = Append(@, show)]

\* day_order.get(air_day, 99)
DayOrder(d) ==
    CASE d = "Sunday" -> 0
      [] d = "Monday" -> 1
      [] d = "Tuesday" -> 2
      [] d = "Wednesday" -> 3
      [] d = "Thursday" -> 4
      [] d = "Friday" -> 5
      [] d = "Saturday" -> 6
      [] OTHER -> 99

\* key(x) < key(y) for key = (day_order.get(air_day, 99), title)
KeyLT(x, y) ==
    \/ DayOrder(x.air_day) < DayOrder(y.air_day)
    \/ /\ DayOrder(x.air_day) = DayOrder(y.air_day)
       /\ StrLT(x.title, y.title)

\* Put x behind every element whose key is not greater (what a stable sort
\* does with the elements taken in list order).
RECURSIVE InsertByKey(_, _)
InsertByKey(sorted, x) ==
    IF sorted = <<>> THEN <<x>>
    ELSE IF KeyLT(x, Head(sorted)) THEN <<x>> \o sorted
    ELSE <<Head(sorted)>> \o InsertByKey(Tail(sorted), x)

\* A bug: the key is the title alone.
RECURSIVE InsertByTitle(_, _)
InsertByTitle(sorted, x) ==
    IF sorted = <<>> THEN <<x>>
    ELSE IF StrLT(x.title, Head(sorted).title) THEN <<x>> \o sorted
    ELSE <<Head(sorted)>> \o InsertByTitle(Tail(sorted), x)

RECURSIVE SortByTitle(_)
SortByTitle(list) ==
    IF list = <<>> THEN <<>>
    ELSE InsertByTitle(SortByTitle(SubSeq(list, 1, Len(list) - 1)), list[Len(list)])

\* priority_shows.sort(key=...)
RECURSIVE SortPriority(_)
SortPriority(list) ==
    IF list = <<>> THEN <<>>
    ELSE InsertByKey(SortPriority(SubSeq(list, 1, Len(list) - 1)), list[Len(list)])

-----------------------------------------------------------------------------
(* Bounds of the model *)

\* Requests handled in one behaviour (each reads a later clock value).
MaxClock == 2
\* Ids the store hands out, and the ids a request may name.
MaxShows == 2
\* Rows of watch_history.
MaxHistory == 3

ReqIds == 1..MaxShows

-----------------------------------------------------------------------------
(* database.py: rows and writes *)

\* A row of table shows.  service, notes, total_seasons and created_at are
\* left out: no handler reads them or writes them after the INSERT.
NewShow(id, title, status, season, episode, air_day, priority, tmdb_id, poster_url, t) ==
    [id |-> id, title |-> title, status |-> status,
     current_season |-> season, current_episode |-> episode,
     episodes_in_season |-> <<>>, air_day |-> air_day, priority |-> priority,
     tmdb_id |-> tmdb_id, poster_url |-> poster_url, trakt_slug |-> NULL,
     updated_at |-> t]

\* add_show: INSERT INTO shows ... ; the id is the next one
AddShow(store, id, row) == [i \in DOMAIN store \cup {id} |-> IF i = id THEN row ELSE store[i]]

\* update_show: UPDATE shows SET <patch>, updated_at = now WHERE id = ?
\* (no row matches an absent id: nothing changes and nothing is raised)
UpdateShow(store, id, patch, t) ==
    IF id \in DOMAIN store
    THEN [store EXCEPT ![id] =
            [f \in DOMAIN @ |->
                IF f = "updated_at" THEN t
                ELSE IF f \in DOMAIN patch THEN patch[f]
                ELSE @[f]]]
    ELSE store

\* A bug: the position is set to the episode watched, not the one after it.
MarkWatchedShowsNoAdvance(store, id, season, episode, t) ==
    IF id \in DOMAIN store
    THEN [store EXCEPT ![id].current_season = season,
                       ![id].current_episode = episode,
                       ![id].updated_at = t]
    ELSE store

\* mark_watched, second statement: UPDATE shows SET current_season,
\* current_episode = episode + 1, updated_at WHERE id = ?
MarkWatchedShows(store, id, season, episode, t) ==
    IF id \in DOMAIN store
    THEN [store EXCEPT ![id].current_season = season,
                       ![id].current_episode = episode + 1,
                       ![id].updated_at = t]
    ELSE store

\* mark_watched, first statement: INSERT INTO watch_history
MarkWatchedHistory(hist, id, season, episode) ==
    Append(hist, [show_id |-> id, season |-> season, episode |-> episode])

\* The INSERT into watch_history is refused for a show_id with no row only
\* where the foreign key is enforced: PostgreSQL (REFERENCES shows(id)).
\* SQLite does not enforce foreign keys unless PRAGMA foreign_keys is set,
\* and get_db does not set it.
ForeignKeyRefuses(be, store, id) == be = "postgres" /\ id \notin DOMAIN store

\* A bug: the history of the deleted show is not deleted with it.
DeleteShowHistoryKept(hist, id) == hist

\* delete_show: DELETE FROM watch_history WHERE show_id = ?
DeleteShowHistory(hist, id) == SelectSeq(hist, LAMBDA h : h.show_id # id)

\* delete_show: DELETE FROM shows WHERE id = ?
DeleteShowShows(store, id) == [i \in DOMAIN store \ {id} |-> store[i]]

-----------------------------------------------------------------------------
(* Requests: what every handler does as it is entered and as it answers *)

\* A request is handled at a later clock value than the one before it.
Tick == now < MaxClock /\ now' = now + 1

Answer(op, id, a, b, code) == [op |-> op, id |-> id, a |-> a, b |-> b, code |-> code]

NoJob == [pc |-> "idle", list |-> <<>>, i |-> 0, updated |-> 0]

\* What the requests send.
SeasonInputs == {1, 2}
EpisodeInputs == {5, 98}
EditInputs == {<<1, 99>>, <<2, 1>>}
FetchedAirDays == {"Thursday"}
FetchedSlugs == {"slug-x"}
DismissInputs == {"slug-x"}
\* POST /api/shows: status, current_episode, and whether a poster is found
AddInputs == {<<"watching", 1, FALSE>>, <<"dropped", 1, FALSE>>, <<"watching", 99, TRUE>>}

-----------------------------------------------------------------------------
(* main.py: the handlers that read *)

\* GET / : home
Home ==
    /\ Tick
    /\ \E list \in GetAllShows(backend, shows) :
        LET rows == Categorize(list) IN
        /\ listed' = list
        /\ priority_shows' = SortPriority(rows.priority_shows)
        /\ backup_shows' = rows.backup_shows
        /\ catching_up' = rows.catching_up
        /\ between_seasons' = rows.between_seasons
    /\ resp' = Answer("home", 0, 0, 0, 200)
    /\ UNCHANGED <<storeVars, recVars, jobVars>>

\* GET /api/shows
ApiShows ==
    /\ Tick
    /\ listed' \in GetAllShows(backend, shows)
    /\ resp' = Answer("api_shows", 0, 0, 0, 200)
    /\ UNCHANGED <<storeVars, recVars, jobVars,
                   priority_shows, backup_shows, catching_up, between_seasons>>

\* GET /api/shows/{show_id}
ApiGetShow(id) ==
    /\ Tick
    /\ resp' = Answer("api_get_show", id, 0, 0,
                      IF GetShow(shows, id) = <<>> THEN 404 ELSE 200)
    /\ UNCHANGED <<storeVars, homeVars, recVars, jobVars>>

-----------------------------------------------------------------------------
(* main.py: the handlers that write one show *)

\* POST /api/shows : api_add_show (search_tmdb finds a poster or does not)
ApiAddShow(title, status, episode, air_day, priority, found) ==
    /\ Tick
    /\ nextId <= MaxShows
    /\ shows' = AddShow(shows, nextId,
                    NewShow(nextId, title, status, 1, episode, air_day, priority,
                            IF found THEN "tmdb-1" ELSE NULL,
                            IF found THEN "poster-1" ELSE NULL, now'))
    /\ nextId' = nextId + 1
    /\ resp' = Answer("api_add_show", nextId, 0, 0, 303)
    /\ UNCHANGED <<backend, history, dismissed, homeVars, recVars, jobVars>>

\* PUT /api/shows/{show_id} : api_update_show
ApiUpdateShow(id, patch) ==
    /\ Tick
    /\ shows' = UpdateShow(shows, id, patch, now')
    /\ resp' = Answer("api_update_show", id, 0, 0, 200)
    /\ UNCHANGED <<backend, nextId, history, dismissed, homeVars, recVars, jobVars>>

\* POST /api/shows/{show_id}/watched : api_mark_watched.  Both statements of
\* mark_watched run in one transaction; an exception rolls it back and the
\* request answers 500.
ApiMarkWatched(id, season, episode) ==
    /\ Tick
    /\ Len(history) < MaxHistory
    /\ IF ForeignKeyRefuses(backend, shows, id)
       THEN /\ UNCHANGED <<shows, history>>
            /\ resp' = Answer("api_mark_watched", id, season, episode, 500)
       ELSE /\ history' = MarkWatchedHistory(history, id, season, episode)
            /\ shows' = MarkWatchedShows(shows, id, season, episode, now')
            /\ resp' = Answer("api_mark_watched", id, season, episode, 200)
    /\ UNCHANGED <<backend, nextId, dismissed, homeVars, recVars, jobVars>>

\* DELETE /api/shows/{show_id} : api_delete_show
ApiDeleteShow(id) ==
    /\ Tick
    /\ history' = DeleteShowHistory(history, id)
    /\ shows' = DeleteShowShows(shows, id)
    /\ resp' = Answer("api_delete_show", id, 0, 0, 200)
    /\ UNCHANGED <<backend, nextId, dismissed, homeVars, recVars, jobVars>>

\* A bug: "caught up" leaves the show in the status of one being watched.
CaughtUpPatchWatching == [current_episode |-> 99, status |-> "watching"]

\* The patch of both "caught up" handlers.
CaughtUpPatch == [current_episode |-> CaughtUpEpisode, status |-> "current"]

\* POST /api/shows/{show_id}/caught-up : api_mark_caught_up
ApiMarkCaughtUp(id) ==
    /\ Tick
    /\ shows' = UpdateShow(shows, id, CaughtUpPatch, now')
    /\ resp' = Answer("api_mark_caught_up", id, 0, 0, 200)
    /\ UNCHANGED <<backend, nextId, history, dismissed, homeVars, recVars, jobVars>>

\* POST /mark-caught-up/{show_id} : mark_caught_up
MarkCaughtUp(id) ==
    /\ Tick
    /\ shows' = UpdateShow(shows, id, CaughtUpPatch, now')
    /\ resp' = Answer("mark_caught_up", id, 0, 0, 303)
    /\ UNCHANGED <<backend, nextId, history, dismissed, homeVars, recVars, jobVars>>

\* POST /edit-show/{show_id} : edit_show
EditShow(id, season, episode) ==
    /\ Tick
    /\ shows' = UpdateShow(shows, id,
                    [current_season |-> season, current_episode |-> episode,
                     status |-> "watching"], now')
    /\ resp' = Answer("edit_show", id, season, episode, 303)
    /\ UNCHANGED <<backend, nextId, history, dismissed, homeVars, recVars, jobVars>>

\* A bug: the sentinel is incremented like any other episode number.
NewEpNoSentinel(show) == show.current_episode + 1

\* new_ep = show['current_episode'] + 1 if show['current_episode'] != 99 else 2
NewEp(show) ==
    IF show.current_episode # CaughtUpEpisode THEN show.current_episode + 1 ELSE 2

\* POST /next-episode/{show_id} : next_episode
NextEpisode(id) ==
    /\ Tick
    /\ shows' = IF GetShow(shows, id) # <<>>
                THEN UpdateShow(shows, id,
                        [current_episode |-> NewEp(shows[id]), status |-> "watching"],
                        now')
                ELSE shows
    /\ resp' = Answer("next_episode", id, 0, 0, 303)
    /\ UNCHANGED <<backend, nextId, history, dismissed, homeVars, recVars, jobVars>>

\* POST /mark-hiatus/{show_id} : mark_hiatus
MarkHiatus(id) ==
    /\ Tick
    /\ shows' = UpdateShow(shows, id, [status |-> "hiatus"], now')
    /\ resp' = Answer("mark_hiatus", id, 0, 0, 303)
    /\ UNCHANGED <<backend, nextId, history, dismissed, homeVars, recVars, jobVars>>

\* A bug: the next season is started but the status is left as it was.
MarkActiveKeepsStatus(id) ==
    /\ Tick
    /\ shows' = IF GetShow(shows, id) # <<>>
                THEN UpdateShow(shows, id,
                        [current_season |-> shows[id].current_season + 1,
                         current_episode |-> 1], now')
                ELSE shows
    /\ resp' = Answer("mark_active", id, 0, 0, 303)
    /\ UNCHANGED <<backend, nextId, history, dismissed, homeVars, recVars, jobVars>>

\* POST /mark-active/{show_id} : mark_active (start the next season)
MarkActive(id) ==
    /\ Tick
    /\ shows' = IF GetShow(shows, id) # <<>>
                THEN UpdateShow(shows, id,
                        [current_season |-> shows[id].current_season + 1,
                         current_episode |-> 1, status |-> "watching"], now')
                ELSE shows
    /\ resp' = Answer("mark_active", id, 0, 0, 303)
    /\ UNCHANGED <<backend, nextId, history, dismissed, homeVars, recVars, jobVars>>

-----------------------------------------------------------------------------
(* main.py: enrichment of one show *)

\* POST /api/shows/{show_id}/fetch-poster : fetch_poster
\* (found: search_tmdb returned a poster_url)
FetchPoster(id, found) ==
    /\ Tick
    /\ IF GetShow(shows, id) = <<>>
       THEN /\ UNCHANGED shows
            /\ resp' = Answer("fetch_poster", id, 0, 0, 404)
       ELSE /\ shows' = IF found
                        THEN UpdateShow(shows, id,
                                [tmdb_id |-> "tmdb-1", poster_url |-> "poster-1"], now')
                        ELSE shows
            /\ resp' = Answer("fetch_poster", id, 0, 0, 200)
    /\ UNCHANGED <<backend, nextId, history, dismissed, homeVars, recVars, jobVars>>

\* What the two Trakt calls give for one title: no search result ("none"),
\* a slug but no details ("no_details"), or details with an air day that
\* may be None.
TraktOutcomes ==
    {[kind |-> "none", slug |-> NULL, air_day |-> NULL]}
    \cup {[kind |-> "no_details", slug |-> sl, air_day |-> NULL] : sl \in FetchedSlugs}
    \cup {[kind |-> "details", slug |-> sl, air_day |-> d] :
            sl \in FetchedSlugs, d \in FetchedAirDays \cup {NULL}}

\* fetch_trakt_for_show: update_data = {"trakt_slug": ...};
\* if details.get('air_day'): update_data['air_day'] = details['air_day']
TraktPatch(show, out) ==
    IF Truthy(out.air_day)
    THEN [trakt_slug |-> out.slug, air_day |-> out.air_day]
    ELSE [trakt_slug |-> out.slug]

\* POST /api/shows/{show_id}/fetch-trakt : fetch_trakt_for_show
FetchTraktForShow(id, out) ==
    /\ Tick
    /\ IF GetShow(shows, id) = <<>>
       THEN /\ UNCHANGED shows
            /\ resp' = Answer("fetch_trakt_for_show", id, 0, 0, 404)
       ELSE /\ shows' = IF out.kind = "details"
                        THEN UpdateShow(shows, id, TraktPatch(shows[id], out), now')
                        ELSE shows
            /\ resp' = Answer("fetch_trakt_for_show", id, 0, 0, 200)
    /\ UNCHANGED <<backend, nextId, history, dismissed, homeVars, recVars, jobVars>>

-----------------------------------------------------------------------------
(* main.py: fetch_all_trakt.  The handler reads the list once and awaits the
   provider for every show of it that has no air_day; other requests are
   handled while it waits. *)

\* if not show.get('air_day'): the next index behind i the loop stops at to
\* call the provider, or Len(list) + 1 when it runs to the end.
RECURSIVE NextWithoutAirDay(_, _)
NextWithoutAirDay(list, i) ==
    IF i >= Len(list) THEN Len(list) + 1
    ELSE IF ~Truthy(list[i + 1].air_day) THEN i + 1
    ELSE NextWithoutAirDay(list, i + 1)

\* POST /api/fetch-all-trakt : from the entry to the first provider call, or
\* to the answer when no show of the list lacks an air_day
FetchAllTraktStart ==
    /\ Tick
    /\ trakt_job.pc = "idle"
    /\ \E list \in GetAllShows(backend, shows) :
        LET first == NextWithoutAirDay(list, 0) IN
        IF first > Len(list)
        THEN /\ trakt_job' = NoJob
             /\ resp' = Answer("fetch_all_trakt", 0, 0, 0, 200)
        ELSE /\ trakt_job' = [pc |-> "awaiting", list |-> list, i |-> first, updated |-> 0]
             /\ resp' = Answer("fetch_all_trakt_start", 0, 0, 0, 0)
    /\ UNCHANGED <<storeVars, homeVars, recVars, poster_job>>

\* The provider answers for the show the loop waits on: the write, if any,
\* then on to the next provider call or to the answer {"updated": n}.
FetchAllTraktStep(out) ==
    /\ Tick
    /\ trakt_job.pc = "awaiting"
    /\ LET show == trakt_job.list[trakt_job.i]
           write == out.kind = "details" /\ Truthy(out.air_day)
           n == IF write THEN trakt_job.updated + 1 ELSE trakt_job.updated
           next == NextWithoutAirDay(trakt_job.list, trakt_job.i)
       IN  /\ shows' = IF write
                       THEN UpdateShow(shows, show.id,
                                [trakt_slug |-> out.slug, air_day |-> out.air_day], now')
                       ELSE shows
           /\ IF next > Len(trakt_job.list)
              THEN /\ trakt_job' = NoJob
                   /\ resp' = Answer("fetch_all_trakt", show.id, n, 0, 200)
              ELSE /\ trakt_job' = [trakt_job EXCEPT !.i = next, !.updated = n]
                   /\ resp' = Answer("fetch_all_trakt_step", show.id, n, 0, 0)
    /\ UNCHANGED <<backend, nextId, history, dismissed, homeVars, recVars, poster_job>>

-----------------------------------------------------------------------------
(* main.py: fetch_all_posters.  As fetch_all_trakt: the list is read once and
   the provider is awaited for every show of it that has no poster_url. *)

\* if not show.get('poster_url'): the next index behind i the loop stops at
\* to call the provider, or Len(list) + 1 when it runs to the end.
RECURSIVE NextWithoutPoster(_, _)
NextWithoutPoster(list, i) ==
    IF i >= Len(list) THEN Len(list) + 1
    ELSE IF ~Truthy(list[i + 1].poster_url) THEN i + 1
    ELSE NextWithoutPoster(list, i + 1)

\* POST /api/fetch-all-posters : from the entry to the first provider call,
\* or to the answer when no show of the list lacks a poster_url
FetchAllPostersStart ==
    /\ Tick
    /\ poster_job.pc = "idle"
    /\ \E list \in GetAllShows(backend, shows) :
        LET first == NextWithoutPoster(list, 0) IN
        IF first > Len(list)
        THEN /\ poster_job' = NoJob
             /\ resp' = Answer("fetch_all_posters", 0, 0, 0, 200)
        ELSE /\ poster_job' = [pc |-> "awaiting", list |-> list, i |-> first, updated |-> 0]
             /\ resp' = Answer("fetch_all_posters_start", 0, 0, 0, 0)
    /\ UNCHANGED <<storeVars, homeVars, recVars, trakt_job>>

\* search_tmdb answers for the show the loop waits on, with a poster or with
\* (None, None): the write, if any, then on to the next provider call or to
\* the answer {"updated": n}.
FetchAllPostersStep(found) ==
    /\ Tick
    /\ poster_job.pc = "awaiting"
    /\ LET show == poster_job.list[poster_job.i]
           n == IF found THEN poster_job.updated + 1 ELSE poster_job.updated
           next == NextWithoutPoster(poster_job.list, poster_job.i)
       IN  /\ shows' = IF found
                       THEN UpdateShow(shows, show.id,
                                [tmdb_id |-> "tmdb-1", poster_url |-> "poster-1"], now')
                       ELSE shows
           /\ IF next > Len(poster_job.list)
              THEN /\ poster_job' = NoJob
                   /\ resp' = Answer("fetch_all_posters", show.id, n, 0, 200)
              ELSE /\ poster_job' = [poster_job EXCEPT !.i = next, !.updated = n]
                   /\ resp' = Answer("fetch_all_posters_step", show.id, n, 0, 0)
    /\ UNCHANGED <<backend, nextId, history, dismissed, homeVars, recVars, trakt_job>>

-----------------------------------------------------------------------------
(* main.py: recommendations *)

\* if len(recommendations) >= 6: break
RecommendationCap == 6
\* The longest answer of the provider the model draws.
MaxPopular == 8

\* The shows the provider may name: title and ids.slug.
Candidates ==
    {[title |-> TitleZ, trakt_slug |-> "slug-x"],
     [title |-> Titlez, trakt_slug |-> "slug-y"],
     [title |-> TitleA, trakt_slug |-> "slug-z"]}

RECURSIVE SeqsUpTo(_, _)
SeqsUpTo(S, n) ==
    IF n = 0 THEN {<<>>}
    ELSE LET shorter == SeqsUpTo(S, n - 1)
         IN  shorter \cup {Append(q, x) : q \in {r \in shorter : Len(r) = n - 1}, x \in S}

\* A bug: titles are compared as they are written.
EligibleCaseSensitive(cand, list, dismissed_slugs) ==
    /\ cand.title \notin {list[i].title : i \in DOMAIN list}
    /\ cand.trakt_slug \notin dismissed_slugs

\* if title.lower() not in current_titles and slug not in dismissed_slugs
Eligible(cand, list, dismissed_slugs) ==
    /\ Lower(cand.title) \notin {Lower(list[i].title) : i \in DOMAIN list}
    /\ cand.trakt_slug \notin dismissed_slugs

\* for show in popular: ... append ... if len(recommendations) >= 6: break
RECURSIVE RecommendLoop(_, _, _, _)
RecommendLoop(pop, list, dismissed_slugs, recs) ==
    IF pop = <<>> THEN recs
    ELSE IF Eligible(Head(pop), list, dismissed_slugs)
         THEN LET more == Append(recs, Head(pop))
              IN  IF Len(more) >= RecommendationCap THEN more
                  ELSE RecommendLoop(Tail(pop), list, dismissed_slugs, more)
    ELSE RecommendLoop(Tail(pop), list, dismissed_slugs, recs)

\* GET /api/recommendations : get_recommendations.  The provider is asked
\* only when the list of shows is not empty; a failed call is the empty
\* answer.  Of a recommendation the model keeps title and trakt_slug.
GetRecommendations ==
    /\ Tick
    /\ \E list \in GetAllShows(backend, shows) :
        IF list = <<>>
        THEN /\ popular' = <<>>
             /\ recommendations' = <<>>
             /\ listed' = list
        ELSE \E pop \in SeqsUpTo(Candidates, MaxPopular) :
             /\ popular' = pop
             /\ recommendations' = RecommendLoop(pop, list, dismissed, <<>>)
             /\ listed' = list
    /\ resp' = Answer("get_recommendations", 0, 0, 0, 200)
    /\ UNCHANGED <<storeVars, jobVars,
                   priority_shows, backup_shows, catching_up, between_seasons>>

\* dismiss_recommendation: INSERT OR IGNORE / ON CONFLICT DO NOTHING
Dismiss(slugs, slug) == slugs \cup {slug}

\* POST /api/recommendations/dismiss
DismissRecommendation(slug) ==
    /\ Tick
    /\ dismissed' = Dismiss(dismissed, slug)
    /\ resp' = Answer("dismiss_recommendation", 0, 0, 0, 200)
    /\ UNCHANGED <<backend, shows, nextId, history, homeVars, recVars, jobVars>>

\* POST /api/recommendations/add : add_recommendation
AddRecommendation(title, slug, priority, air_day, found) ==
    /\ Tick
    /\ nextId <= MaxShows
    /\ shows' = AddShow(shows, nextId,
                    NewShow(nextId, title, "watching", 1, 1, air_day, priority,
                            NULL, IF found THEN "poster-1" ELSE NULL, now'))
    /\ nextId' = nextId + 1
    /\ dismissed' = Dismiss(dismissed, slug)
    /\ resp' = Answer("add_recommendation", nextId, 0, 0, 303)
    /\ UNCHANGED <<backend, history, homeVars, recVars, jobVars>>

-----------------------------------------------------------------------------
(* The store as a process finds it, and the requests *)

\* Rows like those seed_kens_shows inserts (a show being caught up with, one
\* caught up and airing, one between seasons), and one the user has dropped.
InitRows ==
    {[title |-> TitleA, status |-> "watching", current_season |-> 1,
      current_episode |-> 5, episodes_in_season |-> <<5>>, air_day |-> NULL,
      priority |-> 1],
     [title |-> TitleZ, status |-> "current", current_season |-> 2,
      current_episode |-> CaughtUpEpisode, episodes_in_season |-> <<>>,
      air_day |-> "Monday", priority |-> 2],
     [title |-> Titlea, status |-> "hiatus", current_season |-> 1,
      current_episode |-> CaughtUpEpisode, episodes_in_season |-> <<>>,
      air_day |-> NULL, priority |-> 3],
     [title |-> TitleZ, status |-> "dropped", current_season |-> 1,
      current_episode |-> 98, episodes_in_season |-> <<>>,
      air_day |-> "Monday", priority |-> 2]}

\* The numbers of shows the store starts with.
InitSizes == {1, 2}

StoredRow(id, r) ==
    [id |-> id, title |-> r.title, status |-> r.status,
     current_season |-> r.current_season, current_episode |-> r.current_episode,
     episodes_in_season |-> r.episodes_in_season, air_day |-> r.air_day,
     priority |-> r.priority, tmdb_id |-> NULL, poster_url |-> NULL,
     trakt_slug |-> NULL, updated_at |-> 0]

InitViews ==
    /\ resp = Answer("start", 0, 0, 0, 0)
    /\ listed = <<>>
    /\ priority_shows = <<>>
    /\ backup_shows = <<>>
    /\ catching_up = <<>>
    /\ between_seasons = <<>>
    /\ popular = <<>>
    /\ recommendations = <<>>
    /\ trakt_job = NoJob
    /\ poster_job = NoJob

Init ==
    /\ backend \in Backends
    /\ \E n \in InitSizes : \E rows \in [1..n -> InitRows] :
        /\ shows = [id \in 1..n |-> StoredRow(id, rows[id])]
        /\ nextId = n + 1
    /\ history = <<>>
    /\ dismissed = {}
    /\ now = 0
    /\ InitViews

\* What PUT /api/shows/{id} sends.
Patches ==
    {[status |-> "dropped"], [air_day |-> "Monday"]}

Next ==
    \/ Home
    \/ ApiShows
    \/ \E id \in ReqIds : ApiGetShow(id)
    \/ \E in \in AddInputs : ApiAddShow(Titlez, in[1], in[2], NULL, 2, in[3])
    \/ \E id \in ReqIds, patch \in Patches : ApiUpdateShow(id, patch)
    \/ \E id \in ReqIds, season \in SeasonInputs, episode \in EpisodeInputs :
          ApiMarkWatched(id, season, episode)
    \/ \E id \in ReqIds : ApiDeleteShow(id)
    \/ \E id \in ReqIds : ApiMarkCaughtUp(id)
    \/ \E id \in ReqIds : MarkCaughtUp(id)
    \/ \E id \in ReqIds, in \in EditInputs : EditShow(id, in[1], in[2])
    \/ \E id \in ReqIds : NextEpisode(id)
    \/ \E id \in ReqIds : MarkHiatus(id)
    \/ \E id \in ReqIds : MarkActive(id)
    \/ \E id \in ReqIds, found \in BOOLEAN : FetchPoster(id, found)
    \/ \E id \in ReqIds, out \in TraktOutcomes : FetchTraktForShow(id, out)
    \/ FetchAllTraktStart
    \/ \E out \in TraktOutcomes : FetchAllTraktStep(out)
    \/ FetchAllPostersStart
    \/ \E found \in BOOLEAN : FetchAllPostersStep(found)
    \/ \E slug \in DismissInputs : DismissRecommendation(slug)
    \/ \E air_day \in FetchedAirDays \cup {NULL} :
          AddRecommendation(TitleA, "slug-x", 2, air_day, FALSE)

Spec == Init /\ [][Next]_vars

-----------------------------------------------------------------------------
(* The bulk refreshes and the requests handled while they await *)

\* The number of requests and provider answers that follow the start.
MaxBulkSteps == 3

\* The store as Init has it, with MaxBulkSteps ticks of the clock to go.
InitBulk ==
    /\ backend \in Backends
    /\ now = MaxClock - MaxBulkSteps
    /\ \E n \in InitSizes : \E rows \in [1..n -> InitRows] :
        /\ shows = [id \in 1..n |-> [StoredRow(id, rows[id]) EXCEPT !.updated_at = now]]
        /\ nextId = n + 1
    /\ history = <<>>
    /\ dismissed = {}
    /\ InitViews

NextBulk ==
    \/ FetchAllTraktStart
    \/ \E out \in TraktOutcomes : FetchAllTraktStep(out)
    \/ FetchAllPostersStart
    \/ \E found \in BOOLEAN : FetchAllPostersStep(found)
    \/ \E id \in ReqIds, patch \in Patches : ApiUpdateShow(id, patch)
    \/ \E id \in ReqIds : ApiDeleteShow(id)
    \/ \E id \in ReqIds, found \in BOOLEAN : FetchPoster(id, found)

SpecBulk == InitBulk /\ [][NextBulk]_vars

-----------------------------------------------------------------------------
(* The home page over any small store *)

\* Rows of the stores the home page is computed from.
MaxHomeShows == 2

HomeRows ==
    {[title |-> t, status |-> st, current_season |-> 1, current_episode |-> e,
      episodes_in_season |-> <<>>, air_day |-> d, priority |-> p] :
        t \in {TitleZ, Titlea}, st \in {"watching", "current", "hiatus"},
        e \in {3, CaughtUpEpisode}, d \in {NULL, "Sunday", "Monday"}, p \in {2, 3}}
    \cup
    {[title |-> TitleA, status |-> "watching", current_season |-> 1,
      current_episode |-> 3, episodes_in_season |-> <<>>, air_day |-> "Tuesday",
      priority |-> 1],
     [title |-> TitleA, status |-> "current", current_season |-> 7,
      current_episode |-> CaughtUpEpisode, episodes_in_season |-> <<>>,
      air_day |-> "Weekend", priority |-> 2],
     [title |-> TitleZ, status |-> "dropped", current_season |-> 1,
      current_episode |-> CaughtUpEpisode, episodes_in_season |-> <<>>,
      air_day |-> "Sunday", priority |-> 2]}

InitHome ==
    /\ backend \in Backends
    /\ \E n \in 0..MaxHomeShows : \E rows \in [1..n -> HomeRows] :
        /\ shows = [id \in 1..n |-> StoredRow(id, rows[id])]
        /\ nextId = n + 1
    /\ history = <<>>
    /\ dismissed = {}
    /\ now = MaxClock - 1
    /\ InitViews

NextHome == Home

SpecHome == InitHome /\ [][NextHome]_vars

-----------------------------------------------------------------------------
(* The recommendations over any small store and any answer of the provider *)

\* Rows of the stores the recommendations are computed from.
MaxRecShows == 1

RecRows ==
    {[title |-> t[1], status |-> t[2], current_season |-> 1, current_episode |-> 1,
      episodes_in_season |-> <<>>, air_day |-> NULL, priority |-> 2] :
        t \in {<<TitleZ, "watching">>, <<Titlea, "watching">>, <<TitleZ, "dropped">>}}

InitRec ==
    /\ backend \in Backends
    /\ \E n \in 0..MaxRecShows : \E rows \in [1..n -> RecRows] :
        /\ shows = [id \in 1..n |-> StoredRow(id, rows[id])]
        /\ nextId = n + 1
    /\ history = <<>>
    /\ dismissed \in {{}, {"slug-x"}}
    /\ now = MaxClock - 1
    /\ InitViews

NextRec == GetRecommendations

SpecRec == InitRec /\ [][NextRec]_vars

-----------------------------------------------------------------------------
(* Properties of the home page *)

InSeq(x, q) == \E i \in DOMAIN q : q[i] = x

Occurrences(x, q) == Cardinality({i \in DOMAIN q : q[i] = x})

\* The index of the show with this id in a list of distinct shows.
PosOf(id, q) == CHOOSE i \in DOMAIN q : q[i].id = id

HomeAnswered == resp.op = "home"

AllRows == priority_shows \o backup_shows \o catching_up \o between_seasons

\* C1: the list the store returns holds exactly the shows that are not
\* dropped, and after the loop of home every show of that list is in exactly
\* one of the four rows, once: the rows are pairwise disjoint and together
\* they hold the list and nothing else.
C1_BucketsPartition ==
    HomeAnswered =>
        /\ {listed[i].id : i \in DOMAIN listed}
             = {id \in DOMAIN shows : shows[id].status # "dropped"}
        /\ \A i \in DOMAIN listed : listed[i] = shows[listed[i].id]
        /\ \A i \in DOMAIN listed : Occurrences(listed[i], AllRows) = 1
        /\ \A j \in DOMAIN AllRows : InSeq(AllRows[j], listed)
        /\ Len(AllRows) = Len(listed)

\* C1 witness: home has answered for two shows that went to different rows,
\* one of them a hiatus show of priority 3.
C1_Witness ==
    /\ HomeAnswered
    /\ Len(listed) = 2
    /\ Len(between_seasons) = 1
    /\ between_seasons[1].priority = 3
    /\ Len(catching_up) = 1

OnlyIn(x, row, others) == InSeq(x, row) /\ \A k \in DOMAIN others : ~InSeq(x, others[k])

\* C2: the row of a show is decided by the first test that matches: hiatus
\* status, then priority 3, then "watching and not at episode 99", and
\* otherwise the priority row; so a show of priority 1 that is watching at
\* episode 3 is in catching_up and one of priority 2 that is current at
\* episode 99 is in the priority row.
C2_FirstMatchWins ==
    HomeAnswered =>
        \A i \in DOMAIN listed :
            LET x == listed[i]
                hiatus == x.status = "hiatus"
                backup == x.priority = 3
                behind == x.current_episode # 99 /\ x.status = "watching"
            IN  /\ hiatus =>
                    OnlyIn(x, between_seasons, <<priority_shows, backup_shows, catching_up>>)
                /\ ~hiatus /\ backup =>
                    OnlyIn(x, backup_shows, <<priority_shows, catching_up, between_seasons>>)
                /\ ~hiatus /\ ~backup /\ behind =>
                    OnlyIn(x, catching_up, <<priority_shows, backup_shows, between_seasons>>)
                /\ ~hiatus /\ ~backup /\ ~behind =>
                    OnlyIn(x, priority_shows, <<backup_shows, catching_up, between_seasons>>)
                /\ x.priority = 1 /\ x.status = "watching" /\ x.current_episode = 3 =>
                    InSeq(x, catching_up)
                /\ x.priority = 2 /\ x.status = "current" /\ x.current_episode = 99 =>
                    InSeq(x, priority_shows)

\* C2 witness: home has answered for a hiatus show of priority 3 that is not
\* at episode 99, placed in the hiatus row, and for a show of priority 1
\* watching at episode 3, placed in catching_up.
C2_Witness ==
    /\ HomeAnswered
    /\ \E i \in DOMAIN between_seasons :
        between_seasons[i].priority = 3 /\ between_seasons[i].current_episode = 3
    /\ \E i \in DOMAIN catching_up :
        /\ catching_up[i].priority = 1
        /\ catching_up[i].status = "watching"
        /\ catching_up[i].current_episode = 3

Weekdays == <<"Sunday", "Monday", "Tuesday", "Wednesday", "Thursday", "Friday", "Saturday">>

\* Sunday = 0 .. Saturday = 6, anything else (no air day) = 99
WeekdayRank(d) ==
    IF \E k \in DOMAIN Weekdays : Weekdays[k] = d
    THEN (CHOOSE k \in DOMAIN Weekdays : Weekdays[k] = d) - 1
    ELSE 99

SameKey(x, y) == WeekdayRank(x.air_day) = WeekdayRank(y.air_day) /\ x.title = y.title

KeyBefore(x, y) ==
    \/ WeekdayRank(x.air_day) < WeekdayRank(y.air_day)
    \/ WeekdayRank(x.air_day) = WeekdayRank(y.air_day) /\ StrLT(x.title, y.title)

KeepsListOrder(row) ==
    \A i, j \in DOMAIN row :
        i < j => PosOf(row[i].id, listed) < PosOf(row[j].id, listed)

\* C8: the priority row is in the order of the key (weekday rank, title):
\* no show comes before one with a smaller key, so a show with a weekday
\* comes before a show with no air day whatever the titles, and shows with
\* the same key are in the order of the list the store returned.  The other
\* three rows are in the order of that list.
C8_PriorityRowSorted ==
    HomeAnswered =>
        /\ \A i, j \in DOMAIN priority_shows :
            i < j =>
                /\ ~KeyBefore(priority_shows[j], priority_shows[i])
                /\ SameKey(priority_shows[i], priority_shows[j]) =>
                    PosOf(priority_shows[i].id, listed) < PosOf(priority_shows[j].id, listed)
                /\ priority_shows[j].air_day \in SeqToSet(Weekdays) =>
                    priority_shows[i].air_day # NULL
        /\ KeepsListOrder(backup_shows)
        /\ KeepsListOrder(catching_up)
        /\ KeepsListOrder(between_seasons)

\* C8 witness: the priority row holds a show with a weekday in front of a
\* show with no air day and a smaller title, against the order of the list
\* the store returned.
C8_Witness ==
    /\ HomeAnswered
    /\ Len(priority_shows) = 2
    /\ priority_shows[1].air_day = "Monday"
    /\ priority_shows[2].air_day = NULL
    /\ StrLT(priority_shows[2].title, priority_shows[1].title)
    /\ PosOf(priority_shows[2].id, listed) < PosOf(priority_shows[1].id, listed)

-----------------------------------------------------------------------------
(* Properties of the recommendations *)

RecommendationsAnswered == resp.op = "get_recommendations"

ActiveIds == {id \in DOMAIN shows : shows[id].status # "dropped"}

\* A candidate no active show has the title of, case ignored, and whose slug
\* was not dismissed.
MayBeRecommended(c) ==
    /\ \A id \in ActiveIds : Lower(shows[id].title) # Lower(c.title)
    /\ c.trakt_slug \notin dismissed

Min(a, b) == IF a <= b THEN a ELSE b

\* C7: the recommendations hold no candidate whose lowercased title is the
\* lowercased title of an active show and none whose slug is dismissed, they
\* are at most 6, and they are the first candidates of the provider's
\* answer, in its order, that pass both tests.
C7_RecommendationsFiltered ==
    RecommendationsAnswered =>
        LET passing == SelectSeq(popular, MayBeRecommended) IN
        /\ \A i \in DOMAIN recommendations : MayBeRecommended(recommendations[i])
        /\ Len(recommendations) <= 6
        /\ recommendations = SubSeq(passing, 1, Min(6, Len(passing)))

\* C7 witness: the provider named 8 shows, the first has the title of an
\* active show in another case, the other 7 pass, and 6 are recommended.
C7_Witness ==
    /\ RecommendationsAnswered
    /\ Len(popular) = 8
    /\ \E id \in ActiveIds :
        /\ shows[id].title # popular[1].title
        /\ Lower(shows[id].title) = Lower(popular[1].title)
    /\ \A i \in 2..8 : MayBeRecommended(popular[i])
    /\ dismissed # {}
    /\ Len(recommendations) = 6

-----------------------------------------------------------------------------
(* Properties of the handlers that write *)

Position(row) == <<row.current_season, row.current_episode>>

\* The columns of a row but these.
SameBut(old, new, columns) ==
    \A f \in DOMAIN old \ columns : new[f] = old[f]

\* C3: a mark-watched call (show, s, e) with s >= 1 and e >= 1 on a stored
\* show appends the one history entry (show.id, s, e) and leaves the show at
\* season s, episode e + 1, whatever episodes_in_season is; a second call
\* with the same arguments appends a second entry and leaves the position
\* where the first put it.
C3_MarkWatchedAdvances ==
    [][(/\ resp'.op = "api_mark_watched"
        /\ resp'.id \in DOMAIN shows
        /\ resp'.a >= 1
        /\ resp'.b >= 1)
       => LET id == resp'.id IN
          /\ history' = Append(history,
                           [show_id |-> id, season |-> resp'.a, episode |-> resp'.b])
          /\ id \in DOMAIN shows'
          /\ shows'[id].current_season = resp'.a
          /\ shows'[id].current_episode = resp'.b + 1
          /\ SameBut(shows[id], shows'[id],
                     {"current_season", "current_episode", "updated_at"})
          /\ \A other \in DOMAIN shows \ {id} : shows'[other] = shows[other]
          /\ resp = resp' => /\ Len(history') = Len(history) + 1
                             /\ Position(shows'[id]) = Position(shows[id])]_vars

\* C3 witness: the same call was made twice on a show whose season has 5
\* episodes: two equal history rows, and the show at episode 6.
C3_Witness ==
    /\ resp.op = "api_mark_watched"
    /\ resp.id \in DOMAIN shows
    /\ Len(history) = 2
    /\ history[1] = history[2]
    /\ history[2] = [show_id |-> resp.id, season |-> resp.a, episode |-> resp.b]
    /\ shows[resp.id].episodes_in_season = <<5>>
    /\ shows[resp.id].current_episode = 6

\* C4: next-episode on a stored show sets current_episode to 2 when it was
\* 99 and to one more otherwise (5 becomes 6), sets the status to
\* 'watching', and leaves current_season as it was.
C4_NextEpisodeAdvances ==
    [][(resp'.op = "next_episode" /\ resp'.id \in DOMAIN shows)
       => LET id == resp'.id IN
          /\ id \in DOMAIN shows'
          /\ shows[id].current_episode = 99 => shows'[id].current_episode = 2
          /\ shows[id].current_episode # 99 =>
                shows'[id].current_episode = shows[id].current_episode + 1
          /\ shows[id].current_episode = 5 => shows'[id].current_episode = 6
          /\ shows'[id].status = "watching"
          /\ shows'[id].current_season = shows[id].current_season]_vars

\* C4 witness: the first request was next-episode on the show that was
\* current at season 2, episode 99: it is now watching at season 2, episode 2.
C4_Witness ==
    /\ resp.op = "next_episode"
    /\ now = 1
    /\ resp.id \in DOMAIN shows
    /\ shows[resp.id].title = TitleZ
    /\ shows[resp.id].current_episode = 2
    /\ shows[resp.id].current_season = 2
    /\ shows[resp.id].status = "watching"

CaughtUpOps == {"api_mark_caught_up", "mark_caught_up"}

\* Two "caught up" requests for the same stored show, one after the other.
CaughtUpAgain ==
    /\ resp.op \in CaughtUpOps
    /\ resp'.op \in CaughtUpOps
    /\ resp'.id = resp.id
    /\ resp.id \in DOMAIN shows

\* C6 as stated: a second "caught up" leaves the show exactly as the first
\* left it, every attribute.
C6_Original ==
    [][CaughtUpAgain => shows'[resp.id] = shows[resp.id]]_vars

\* C6 as amended: "caught up", from either endpoint, leaves a stored show at
\* episode 99 with status 'current' and changes no other attribute but
\* updated_at; applied again it changes nothing but updated_at, which every
\* application stamps with the time of the request.
C6_CaughtUpIdempotent ==
    [][(resp'.op \in CaughtUpOps /\ resp'.id \in DOMAIN shows)
       => LET id == resp'.id IN
          /\ id \in DOMAIN shows'
          /\ shows'[id].current_episode = 99
          /\ shows'[id].status = "current"
          /\ shows'[id].updated_at = now'
          /\ SameBut(shows[id], shows'[id], {"current_episode", "status", "updated_at"})
          /\ CaughtUpAgain => SameBut(shows[id], shows'[id], {"updated_at"})]_vars

\* C6 witness: two requests were handled, the second a "caught up" for a
\* show that was at episode 99 with status 'current' since the first.
C6_Witness ==
    /\ resp.op \in CaughtUpOps
    /\ now = 2
    /\ resp.id \in DOMAIN shows
    /\ shows[resp.id].title = TitleA
    /\ shows[resp.id].current_episode = 99
    /\ shows[resp.id].status = "current"
    /\ shows[resp.id].current_season = 1
    /\ shows[resp.id].updated_at = 2

-----------------------------------------------------------------------------
(* Properties of enrichment, of dropped shows and of absent ids *)

\* The air day a merge that writes only an absent air_day leaves.
MergedAirDay(old, out) ==
    IF Truthy(old) THEN old
    ELSE IF out.kind = "details" /\ Truthy(out.air_day) THEN out.air_day
    ELSE old

\* C5: merging the schedule data fetched for a stored show, in the per-show
\* refetch and in the bulk refresh alike, leaves an air_day that is not null
\* as it is and writes the fetched air day over a null one.
C5_AirDayNeverOverwritten ==
    [][\A id \in ReqIds, out \in TraktOutcomes :
        (/\ id \in DOMAIN shows
         /\ \/ FetchTraktForShow(id, out)
            \/ FetchAllTraktStep(out) /\ trakt_job.list[trakt_job.i].id = id)
        => /\ id \in DOMAIN shows'
           /\ shows'[id].air_day = MergedAirDay(shows[id].air_day, out)]_vars

DroppedIds == {id \in DOMAIN shows : shows[id].status = "dropped"}

NoDroppedIn(row) == \A i \in DOMAIN row : row[i].id \notin DroppedIds

\* C9, what a reader of the store sees: a list the store has just returned,
\* and the four rows made of it, hold no dropped show, and every dropped show
\* is in the store and get_show returns it.
NoDroppedShowListed ==
    /\ resp.op \in {"home", "api_shows", "get_recommendations"} => NoDroppedIn(listed)
    /\ resp.op = "fetch_all_trakt_start" => NoDroppedIn(trakt_job.list)
    /\ HomeAnswered => NoDroppedIn(AllRows)
    /\ \A id \in DroppedIds : GetShow(shows, id) = <<shows[id]>>

\* C9, the request that drops a show: it removes neither the show nor a row
\* of the history.
DroppingKeepsShowAndHistory ==
    \A id \in DOMAIN shows :
        ApiUpdateShow(id, [status |-> "dropped"]) =>
            /\ DOMAIN shows' = DOMAIN shows
            /\ shows'[id].status = "dropped"
            /\ GetShow(shows', id) = <<shows'[id]>>
            /\ history' = history

\* C9: after any requests a dropped show is in no list the store returns
\* and in none of the four rows, and is still stored and returned by
\* get_show; dropping a show deletes neither the show nor its history.
C9_DroppedHiddenButKept ==
    [](NoDroppedShowListed) /\ [][DroppingKeepsShowAndHistory]_vars

\* C9 witness: home has answered, for a list of one show, while the store
\* holds a second show that the request before dropped.
C9_Witness ==
    /\ HomeAnswered
    /\ now = 2
    /\ Len(listed) = 1
    /\ \E id \in DroppedIds : shows[id].updated_at = 1

\* The requests that name a show id.
ShowOps ==
    {"api_get_show", "api_update_show", "api_mark_watched", "api_delete_show",
     "api_mark_caught_up", "mark_caught_up", "mark_hiatus", "next_episode",
     "mark_active", "fetch_poster", "fetch_trakt_for_show"}

\* C10: a request that names a show id the store does not hold is answered
\* with the client error 404 and changes neither the shows nor the history.
C10_AbsentIdIsNotFound ==
    [][(resp'.op \in ShowOps /\ resp'.id \notin DOMAIN shows)
       => /\ resp'.code = 404
          /\ shows' = shows
          /\ history' = history]_vars

-----------------------------------------------------------------------------
(* Properties of the history, of the next season and of the sentinel *)

RefersTo(hist, id) == \E i \in DOMAIN hist : hist[i].show_id = id

\* C12: the watch history is append-only.  delete_show removes the show and
\* exactly the history rows of that show, so that none refers to it any
\* more, and keeps the other rows as they are and in their order;
\* mark-watched only appends; every other request leaves the history as it is.
C12_HistoryAppendOnly ==
    [][LET id == resp'.id IN
       /\ resp'.op = "api_delete_show" =>
            /\ history' = SelectSeq(history, LAMBDA h : h.show_id # id)
            /\ ~RefersTo(history', id)
            /\ DOMAIN shows' = DOMAIN shows \ {id}
            /\ \A other \in DOMAIN shows' : shows'[other] = shows[other]
       /\ resp'.op = "api_mark_watched" =>
            /\ Len(history') >= Len(history)
            /\ Len(history') <= Len(history) + 1
            /\ SubSeq(history', 1, Len(history)) = history
       /\ resp'.op \notin {"api_delete_show", "api_mark_watched"} =>
            history' = history]_vars

\* C12 witness: a show that was stored has been deleted while the history
\* holds a row of another show, which is still stored.
C12_Witness ==
    /\ resp.op = "api_delete_show"
    /\ resp.id \notin DOMAIN shows
    /\ resp.id < nextId
    /\ Len(history) = 1
    /\ history[1].show_id \in DOMAIN shows

\* The row of the home page a show is put in, for every list the store may
\* return.
PutIn(store, id, row) ==
    \A list \in GetAllShows(backend, store) :
        \E i \in DOMAIN Categorize(list)[row] : Categorize(list)[row][i].id = id

\* C13: start-next-season on a stored show, whatever its status, sets
\* current_season to one more, current_episode to 1 and status to
\* 'watching'; the home page then has the show in catching_up, or in the
\* backup row when its priority is 3, and not in the hiatus row.
C13_StartNextSeason ==
    [][(resp'.op = "mark_active" /\ resp'.id \in DOMAIN shows)
       => LET id == resp'.id IN
          /\ id \in DOMAIN shows'
          /\ shows'[id].current_season = shows[id].current_season + 1
          /\ shows'[id].current_episode = 1
          /\ shows'[id].status = "watching"
          /\ SameBut(shows[id], shows'[id],
                     {"current_season", "current_episode", "status", "updated_at"})
          /\ shows[id].priority # 3 => PutIn(shows', id, "catching_up")
          /\ shows[id].priority = 3 => PutIn(shows', id, "backup_shows")]_vars

\* C13 witness: the first request was start-next-season on the show that was
\* on hiatus at season 1, episode 99: it is now watching season 2, episode 1.
C13_Witness ==
    /\ resp.op = "mark_active"
    /\ now = 1
    /\ resp.id \in DOMAIN shows
    /\ shows[resp.id].title = Titlea
    /\ shows[resp.id].current_season = 2
    /\ shows[resp.id].current_episode = 1
    /\ shows[resp.id].status = "watching"

\* C14: no mark-watched and no next-episode request leaves a show at
\* episode 99, the number that means "caught up".
C14_SentinelNotReachedByAdvancing ==
    [][(resp'.op \in {"api_mark_watched", "next_episode"} /\ resp'.id \in DOMAIN shows')
       => shows'[resp'.id].current_episode # CaughtUpEpisode]_vars

-----------------------------------------------------------------------------
(* Properties of the bulk refreshes *)

\* The show fetch_all_posters waits on.
PosterTarget == poster_job.list[poster_job.i].id

\* C11: in a bulk refresh, a provider answer without data for a show leaves
\* the shows unchanged; the loop goes on or answers 200; the count 'updated'
\* goes up by one exactly when a record was written, so that the reported
\* count is the number of records written; and fetch_all_posters writes only
\* to a show that has no poster_url.
C11_BulkRefreshCountsWrites ==
    [][/\ \A found \in BOOLEAN : FetchAllPostersStep(found) =>
            /\ ~found => shows' = shows
            /\ resp'.code \in {0, 200}
            /\ resp'.code = 0 => poster_job'.pc = "awaiting" /\ poster_job'.i > poster_job.i
            /\ resp'.a = poster_job.updated + (IF shows' # shows THEN 1 ELSE 0)
            /\ shows' # shows =>
                 /\ PosterTarget \in DOMAIN shows
                 /\ ~Truthy(shows[PosterTarget].poster_url)
       /\ \A out \in TraktOutcomes : FetchAllTraktStep(out) =>
            /\ (out.kind # "details" \/ ~Truthy(out.air_day)) => shows' = shows
            /\ resp'.code \in {0, 200}
            /\ resp'.code = 0 => trakt_job'.pc = "awaiting" /\ trakt_job'.i > trakt_job.i
            /\ resp'.a = trakt_job.updated + (IF shows' # shows THEN 1 ELSE 0)]_vars

\* C15: whatever is handled while fetch_all_trakt awaits the provider, the
\* refresh never replaces an air_day the store holds: it writes air_day only
\* to a show whose air_day is null in the store at the moment of the write.
C15_BulkRefreshKeepsUserAirDay ==
    [][\A out \in TraktOutcomes : FetchAllTraktStep(out) =>
          \A id \in DOMAIN shows :
              Truthy(shows[id].air_day) =>
                  id \in DOMAIN shows' /\ shows'[id].air_day = shows[id].air_day]_vars

====
